---------------------------- MODULE Spec2Model ----------------------------
(***************************************************************************)
(* Model of main_file.py: the photo normaliser process_passport_photo and  *)
(* the document assembler generate_resume.                                 *)
(*                                                                         *)
(* Text is modelled as a sequence of character codes, so that upper(),     *)
(* replace(' ', '_'), str() and the "\n" test are computed as the code     *)
(* computes them.  An image is modelled by its shape (width W, height H);  *)
(* the face detector is an external capability whose answer is drawn from  *)
(* the boxes that lie inside the image.  The code reads only len(faces)    *)
(* and faces[0], so the detector's answer is kept as that pair.            *)
(***************************************************************************)
EXTENDS Integers, Sequences, FiniteSets, TLC

VARIABLES
    pc,             \* position of the running call
    raised,         \* the exception that ended the call, or "none"
    fs_tmp,         \* the file at output_path (temp_passport_photo.jpg)
    input_path,     \* process_passport_photo: its argument
    img,            \* process_passport_photo: the decoded image's shape
    nfaces,         \* process_passport_photo: len(faces)
    face0,          \* process_passport_photo: faces[0]
    crop_img,       \* process_passport_photo: the crop rectangle and shape
    final_img,      \* process_passport_photo: the resized image's shape
    ret,            \* process_passport_photo: its return value
    personal_info,  \* generate_resume: the record, in insertion order
    photo_path,     \* generate_resume: its second argument
    doc,            \* generate_resume: the document's blocks, in order
    cell_info,      \* generate_resume: paragraphs of the header's left cell
    cell_photo,     \* generate_resume: content of the header's right cell
    idx,            \* generate_resume: position of the loop over items()
    saved           \* generate_resume: file names doc.save was called with

ppvars == <<input_path, img, nfaces, face0, crop_img, final_img, ret>>
grvars == <<personal_info, photo_path, doc, cell_info, cell_photo, idx, saved>>
vars == <<pc, raised, fs_tmp, input_path, img, nfaces, face0, crop_img,
          final_img, ret, personal_info, photo_path, doc, cell_info,
          cell_photo, idx, saved>>

-----------------------------------------------------------------------------
(* Bounds of the model.                                                    *)

MaxW == 6
MaxH == 4
MaxFaces == 2
MaxFields == 3
MaxRows == 2

-----------------------------------------------------------------------------
(* Program constants.                                                      *)

OUT_W == 413
OUT_H == 531
COLS == 4

Max(a, b) == IF a >= b THEN a ELSE b
Min(a, b) == IF a <= b THEN a ELSE b

-----------------------------------------------------------------------------
(* Photo paths, images, boxes.                                             *)

NoPath == [kind |-> "None", W |-> 0, H |-> 0]
EmptyPath == [kind |-> "empty", W |-> 0, H |-> 0]
MissingPath == [kind |-> "missing", W |-> 0, H |-> 0]
UndecodablePath == [kind |-> "undecodable", W |-> 0, H |-> 0]
ImagePath(W, H) == [kind |-> "image", W |-> W, H |-> H]

NoImg == [W |-> 0, H |-> 0]
NoBox == [x |-> 0, y |-> 0, w |-> 0, h |-> 0]
NoCrop == [x1 |-> 0, x2 |-> 0, y1 |-> 0, y2 |-> 0, w |-> 0, h |-> 0]
NoFile == [w |-> 0, h |-> 0]

\* Boxes the detector can return for an image of shape W x H.
Boxes(W, H) ==
    {[x |-> x, y |-> y, w |-> w, h |-> h] :
        x \in 0..(W - 1), y \in 0..(H - 1), w \in 1..W, h \in 1..H}

BoxesInside(W, H) == {b \in Boxes(W, H) : b.x + b.w <= W /\ b.y + b.h <= H}

\* Length of a[lo:hi] for a dimension of n elements, 0 <= lo, 0 <= hi.
SliceLen(lo, hi, n) == Max(0, Min(hi, n) - Min(lo, n))

Slice(image, y1, y2, x1, x2) ==
    [x1 |-> x1, x2 |-> x2, y1 |-> y1, y2 |-> y2,
     w |-> SliceLen(x1, x2, image.W), h |-> SliceLen(y1, y2, image.H)]

\* int(v * 0.5), int(v * 0.3), int(v * 0.25), int(v * 0.75) for v >= 0.
Half(v) == v \div 2
ThreeTenths(v) == (3 * v) \div 10
Quarter(v) == v \div 4
ThreeQuarters(v) == (3 * v) \div 4

\* Variant of FaceCrop: the padded box without the max and min of lines 51-54.
FaceCropUnclamped(image, f) ==
    Slice(image, f.y - Half(f.h), f.y + f.h + Half(f.h),
                 f.x - ThreeTenths(f.w), f.x + f.w + ThreeTenths(f.w))

FaceCrop(image, f) ==
    LET pad_top == Half(f.h)
        pad_bottom == Half(f.h)
        pad_left == ThreeTenths(f.w)
        pad_right == ThreeTenths(f.w)
        y1 == Max(0, f.y - pad_top)
        y2 == Min(image.H, f.y + f.h + pad_bottom)
        x1 == Max(0, f.x - pad_left)
        x2 == Min(image.W, f.x + f.w + pad_right)
    IN  Slice(image, y1, y2, x1, x2)

\* Variant of CenterCrop: the middle third instead of the middle half.
CenterCropThirds(image) ==
    Slice(image, 0, image.H, image.W \div 3, (2 * image.W) \div 3)

CenterCrop(image) ==
    LET h == image.H
        w == image.W
    IN  Slice(image, 0, h, Quarter(w), ThreeQuarters(w))

\* cv2.resize(crop_img, (413, 531)): dsize is (width, height).
Resize(c) == [w |-> OUT_W, h |-> OUT_H]

-----------------------------------------------------------------------------
(* process_passport_photo(input_path, output_path)                         *)

PPNotFound ==
    /\ pc = "pp_exists"
    /\ input_path.kind = "missing"
    /\ ret' = "False"
    /\ pc' = "pp_ret"
    /\ UNCHANGED <<raised, fs_tmp, input_path, img, nfaces, face0, crop_img,
                   final_img, grvars>>

PPExists ==
    /\ pc = "pp_exists"
    /\ input_path.kind # "missing"
    /\ pc' = "pp_read"
    /\ UNCHANGED <<raised, fs_tmp, ppvars, grvars>>

PPReadNone ==
    /\ pc = "pp_read"
    /\ input_path.kind # "image"
    /\ ret' = "False"
    /\ pc' = "pp_ret"
    /\ UNCHANGED <<raised, fs_tmp, input_path, img, nfaces, face0, crop_img,
                   final_img, grvars>>

PPRead ==
    /\ pc = "pp_read"
    /\ input_path.kind = "image"
    /\ img' = [W |-> input_path.W, H |-> input_path.H]
    /\ pc' = "pp_detect"
    /\ UNCHANGED <<raised, fs_tmp, input_path, nfaces, face0, crop_img,
                   final_img, ret, grvars>>

PPDetect ==
    /\ pc = "pp_detect"
    /\ \E n \in 0..MaxFaces :
        \E b \in BoxesInside(img.W, img.H) :
            /\ nfaces' = n
            /\ face0' = IF n = 0 THEN NoBox ELSE b
    /\ pc' = "pp_crop"
    /\ UNCHANGED <<raised, fs_tmp, input_path, img, crop_img, final_img, ret,
                   grvars>>

PPCropFace ==
    /\ pc = "pp_crop"
    /\ nfaces > 0
    /\ crop_img' = FaceCrop(img, face0)
    /\ pc' = "pp_resize"
    /\ UNCHANGED <<raised, fs_tmp, input_path, img, nfaces, face0, final_img,
                   ret, grvars>>

PPCropCenter ==
    /\ pc = "pp_crop"
    /\ nfaces = 0
    /\ crop_img' = CenterCrop(img)
    /\ pc' = "pp_resize"
    /\ UNCHANGED <<raised, fs_tmp, input_path, img, nfaces, face0, final_img,
                   ret, grvars>>

\* cv2.resize rejects an empty source.
PPResizeError ==
    /\ pc = "pp_resize"
    /\ (crop_img.w = 0 \/ crop_img.h = 0)
    /\ raised' = "cv2.error"
    /\ pc' = "raised"
    /\ UNCHANGED <<fs_tmp, ppvars, grvars>>

PPResize ==
    /\ pc = "pp_resize"
    /\ crop_img.w > 0
    /\ crop_img.h > 0
    /\ final_img' = Resize(crop_img)
    /\ pc' = "pp_write"
    /\ UNCHANGED <<raised, fs_tmp, input_path, img, nfaces, face0, crop_img,
                   ret, grvars>>

PPWrite ==
    /\ pc = "pp_write"
    /\ fs_tmp' = final_img
    /\ ret' = "True"
    /\ pc' = "pp_ret"
    /\ UNCHANGED <<raised, input_path, img, nfaces, face0, crop_img,
                   final_img, grvars>>

PPNext ==
    \/ PPNotFound
    \/ PPExists
    \/ PPReadNone
    \/ PPRead
    \/ PPDetect
    \/ PPCropFace
    \/ PPCropCenter
    \/ PPResizeError
    \/ PPResize
    \/ PPWrite

-----------------------------------------------------------------------------
(* Text: sequences of character codes.                                     *)

FullName == <<70, 117, 108, 108, 32, 78, 97, 109, 101>>
Email == <<69, 109, 97, 105, 108>>
Phone == <<80, 104, 111, 110, 101>>
Address == <<65, 100, 100, 114, 101, 115, 115>>
LinkedIn == <<76, 105, 110, 107, 101, 100, 73, 110>>
PhotoPathKey == <<80, 104, 111, 116, 111, 32, 80, 97, 116, 104>>
Education == <<69, 100, 117, 99, 97, 116, 105, 111, 110>>
Skills == <<83, 107, 105, 108, 108, 115>>
NA == <<78, 65>>
NoPhotoText == <<91, 78, 111, 32, 80, 104, 111, 116, 111, 93>>
ResumeDefault == <<82, 101, 115, 117, 109, 101>>
ResumeSuffix == <<95, 82, 101, 115, 117, 109, 101, 46, 100, 111, 99, 120>>

\* headers, line 124
headers ==
    << <<68, 101, 103, 114, 101, 101, 47, 67, 111, 117, 114, 115, 101>>,
       <<73, 110, 115, 116, 105, 116, 117, 116, 105, 111, 110>>,
       <<89, 101, 97, 114>>,
       <<71, 114, 97, 100, 101, 47, 67, 71, 80, 65>> >>

contact_keys == <<Email, Phone, Address, LinkedIn>>
ignore_keys == {FullName, Email, Phone, Address, LinkedIn, PhotoPathKey}

\* str.upper() on ASCII text
Upper(s) == [i \in 1..Len(s) |-> IF s[i] \in 97..122 THEN s[i] - 32 ELSE s[i]]

\* str.replace(' ', '_')
ReplaceSpaces(s) == [i \in 1..Len(s) |-> IF s[i] = 32 THEN 95 ELSE s[i]]

\* "\n" in s
HasNewline(s) == \E i \in 1..Len(s) : s[i] = 10

\* A field value: text, or a list of rows of text cells.
Str(s) == [t |-> "str", s |-> s, rows |-> <<>>]
Lst(rows) == [t |-> "list", s |-> <<>>, rows |-> rows]

RECURSIVE Join(_, _)
Join(parts, sep) ==
    IF parts = <<>> THEN <<>>
    ELSE IF Len(parts) = 1 THEN parts[1]
    ELSE parts[1] \o sep \o Join(Tail(parts), sep)

\* repr() of a text without quotes or escapes, and of a list
ReprText(s) == <<39>> \o s \o <<39>>
ReprList(items) == <<91>> \o Join(items, <<44, 32>>) \o <<93>>

\* str(content)
StrOf(v) ==
    IF v.t = "str" THEN v.s
    ELSE ReprList([i \in 1..Len(v.rows) |->
            ReprList([j \in 1..Len(v.rows[i]) |-> ReprText(v.rows[i][j])])])

\* bool(content)
Truthy(v) == IF v.t = "str" THEN Len(v.s) > 0 ELSE Len(v.rows) > 0

\* personal_info.get(key, default)
Get(info, key, default) ==
    IF \E i \in 1..Len(info) : info[i].name = key
    THEN info[CHOOSE i \in 1..Len(info) : info[i].name = key].value
    ELSE default

-----------------------------------------------------------------------------
(* The records and photos generate_resume is called with.                  *)

CellText(i, j) == <<96 + i, 48 + j>>
RowOf(i, n) == [j \in 1..n |-> CellText(i, j)]
RowLens == {COLS - 1, COLS}

RowLists ==
    UNION {{[i \in 1..k |-> RowOf(i, lens[i])] : lens \in [1..k -> RowLens]} :
            k \in 0..MaxRows}

Values(n) ==
    IF n = FullName THEN {Str(<<74, 32, 68>>)}
    ELSE IF n = Email THEN {Str(NA), Str(<<>>), Str(<<101, 64, 120>>)}
    ELSE IF n = LinkedIn THEN {Str(<<105, 110, 47, 106, 100>>)}
    ELSE IF n = Education
        THEN {Str(NA), Str(<<66, 83, 99>>)} \cup {Lst(r) : r \in RowLists}
    ELSE {Str(<<>>), Str(<<97, 10, 98>>), Lst(<<RowOf(1, COLS)>>)}

FieldNames == {FullName, Email, LinkedIn, Education, Skills}

Entries ==
    UNION {{[name |-> n, value |-> v] : v \in Values(n)} : n \in FieldNames}

Records ==
    UNION {{r \in [1..k -> Entries] :
                \A i, j \in 1..k : r[i].name = r[j].name => i = j} :
            k \in 0..MaxFields}

ResumePhotos ==
    {NoPath, EmptyPath, MissingPath, UndecodablePath, ImagePath(1, 1),
     ImagePath(2, 1)}

PhotoInputs ==
    {MissingPath, UndecodablePath}
        \cup {ImagePath(W, H) : W \in 1..MaxW, H \in 1..MaxH}

-----------------------------------------------------------------------------
(* Document blocks.                                                        *)

Block(kind, text, rows, style) ==
    [kind |-> kind, text |-> text, rows |-> rows, style |-> style]

HeaderTable == Block("header_table", <<>>, <<>>, "")
Spacer == Block("paragraph", <<>>, <<>>, "Normal")
Heading(text) == Block("heading", text, <<>>, "Heading 1")
Table(rows) == Block("table", <<>>, rows, "Table Grid")
Paragraph(text, style) == Block("paragraph", text, <<>>, style)

EmptyCell == [pictures |-> <<>>, text |-> <<>>]

\* lines 82-86: the contact lines, in the order of contact_keys
ContactLines(info) ==
    LET Line(k) == Get(info, contact_keys[k], Str(NA))
    IN  SelectSeq([k \in 1..Len(contact_keys) |-> Line(k)],
                  LAMBDA val : val # Str(NA))

\* Variant of Skipped: the name test of line 109 without its presence test.
SkippedByName(section, content) == section \in ignore_keys

\* line 109
Skipped(section, content) ==
    section \in ignore_keys \/ content = Str(NA) \/ ~Truthy(content)

\* Variant of IsTable: line 117 without its name test.
IsTableByShape(section, content) == content.t = "list"

\* line 117
IsTable(section, content) == section = Education /\ content.t = "list"

\* Variant of FilledRow: the Year and Grade cells exchanged.
FilledRowSwapped(edu_row) ==
    [j \in 1..COLS |->
        IF j = 3 /\ 4 <= Len(edu_row) THEN edu_row[4]
        ELSE IF j = 4 /\ 4 <= Len(edu_row) THEN edu_row[3]
        ELSE IF j <= Len(edu_row) THEN edu_row[j] ELSE <<>>]

\* lines 131-135: the cells of a new table row after the assignments that
\* succeed
FilledRow(edu_row) ==
    [j \in 1..COLS |-> IF j <= Len(edu_row) THEN edu_row[j] ELSE <<>>]

\* lines 130-135
RECURSIVE DataRows(_, _)
DataRows(table, content) ==
    IF content = <<>> THEN [rows |-> table, error |-> FALSE]
    ELSE LET edu_row == Head(content)
         IN  IF Len(edu_row) < COLS
             THEN [rows |-> Append(table, FilledRow(edu_row)), error |-> TRUE]
             ELSE DataRows(Append(table, FilledRow(edu_row)), Tail(content))

\* line 145
OutputFilename(info) ==
    ReplaceSpaces(StrOf(Get(info, FullName, Str(ResumeDefault)))) \o ResumeSuffix

-----------------------------------------------------------------------------
(* generate_resume(personal_info, photo_path)                              *)

PPLocals ==
    /\ input_path' = NoPath
    /\ img' = NoImg
    /\ nfaces' = -1
    /\ face0' = NoBox
    /\ crop_img' = NoCrop
    /\ final_img' = NoFile
    /\ ret' = "none"

GRLocals ==
    /\ personal_info' = <<>>
    /\ photo_path' = NoPath
    /\ doc' = <<>>
    /\ cell_info' = <<>>
    /\ cell_photo' = EmptyCell
    /\ idx' = 0
    /\ saved' = <<>>

\* the call, lines 66-67
GRCall ==
    /\ pc = "idle"
    /\ \E info \in Records : personal_info' = info
    /\ \E p \in ResumePhotos : photo_path' = p
    /\ doc' = <<>>
    /\ pc' = "gr_header"
    /\ UNCHANGED <<raised, fs_tmp, ppvars, cell_info, cell_photo, idx, saved>>

\* lines 70-86
GRHeader ==
    /\ pc = "gr_header"
    /\ doc' = Append(doc, HeaderTable)
    /\ cell_info' =
         <<StrOf(Get(personal_info, FullName, Str(<<>>)))>>
            \o [k \in 1..Len(ContactLines(personal_info)) |->
                    StrOf(ContactLines(personal_info)[k])]
    /\ pc' = "gr_photo"
    /\ UNCHANGED <<raised, fs_tmp, ppvars, personal_info, photo_path,
                   cell_photo, idx, saved>>

\* line 95, photo_path falsy; line 100
GRNoPhotoPath ==
    /\ pc = "gr_photo"
    /\ photo_path.kind \in {"None", "empty"}
    /\ cell_photo' = [cell_photo EXCEPT !.text = NoPhotoText]
    /\ pc' = "gr_spacer"
    /\ UNCHANGED <<raised, fs_tmp, ppvars, personal_info, photo_path, doc,
                   cell_info, idx, saved>>

\* line 95, the call process_passport_photo(photo_path, processed_photo)
GRPhotoCall ==
    /\ pc = "gr_photo"
    /\ photo_path.kind \notin {"None", "empty"}
    /\ input_path' = photo_path
    /\ pc' = "pp_exists"
    /\ UNCHANGED <<raised, fs_tmp, img, nfaces, face0, crop_img, final_img,
                   ret, grvars>>

\* Variant of GRPhotoFailed: a failed normalisation ends the call.
GRPhotoFailedRaises ==
    /\ pc = "pp_ret"
    /\ ret = "False"
    /\ raised' = "ValueError"
    /\ pc' = "raised"
    /\ UNCHANGED <<fs_tmp, ppvars, grvars>>

\* line 95, the call returned False; line 100
GRPhotoFailed ==
    /\ pc = "pp_ret"
    /\ ret = "False"
    /\ cell_photo' = [cell_photo EXCEPT !.text = NoPhotoText]
    /\ PPLocals
    /\ pc' = "gr_spacer"
    /\ UNCHANGED <<raised, fs_tmp, personal_info, photo_path, doc, cell_info,
                   idx, saved>>

\* line 96
GRAddPicture ==
    /\ pc = "pp_ret"
    /\ ret = "True"
    /\ fs_tmp # NoFile
    /\ cell_photo' = [cell_photo EXCEPT !.pictures = Append(@, fs_tmp)]
    /\ PPLocals
    /\ pc' = "gr_remove"
    /\ UNCHANGED <<raised, fs_tmp, personal_info, photo_path, doc, cell_info,
                   idx, saved>>

\* line 96, the document engine fails to embed the picture
GRAddPictureError ==
    /\ pc = "pp_ret"
    /\ ret = "True"
    /\ raised' = "add_picture"
    /\ PPLocals
    /\ pc' = "raised"
    /\ UNCHANGED <<fs_tmp, grvars>>

\* lines 97-98
GRRemove ==
    /\ pc = "gr_remove"
    /\ fs_tmp' = NoFile
    /\ pc' = "gr_spacer"
    /\ UNCHANGED <<raised, ppvars, grvars>>

\* line 102
GRSpacer ==
    /\ pc = "gr_spacer"
    /\ doc' = Append(doc, Spacer)
    /\ idx' = 1
    /\ pc' = "gr_sections"
    /\ UNCHANGED <<raised, fs_tmp, ppvars, personal_info, photo_path,
                   cell_info, cell_photo, saved>>

\* lines 107-110
GRSkip ==
    /\ pc = "gr_sections"
    /\ idx <= Len(personal_info)
    /\ Skipped(personal_info[idx].name, personal_info[idx].value)
    /\ idx' = idx + 1
    /\ UNCHANGED <<pc, raised, fs_tmp, ppvars, personal_info, photo_path, doc,
                   cell_info, cell_photo, saved>>

\* lines 107-137, every row has its 4 cells
GRTable ==
    /\ pc = "gr_sections"
    /\ idx <= Len(personal_info)
    /\ LET section == personal_info[idx].name
           content == personal_info[idx].value
           t == DataRows(<<headers>>, content.rows)
       IN  /\ ~Skipped(section, content)
           /\ IsTable(section, content)
           /\ ~t.error
           /\ doc' = doc \o <<Heading(Upper(section)), Table(t.rows), Spacer>>
    /\ idx' = idx + 1
    /\ UNCHANGED <<pc, raised, fs_tmp, ppvars, personal_info, photo_path,
                   cell_info, cell_photo, saved>>

\* lines 107-135, edu_row[k] raises IndexError
GRTableError ==
    /\ pc = "gr_sections"
    /\ idx <= Len(personal_info)
    /\ LET section == personal_info[idx].name
           content == personal_info[idx].value
           t == DataRows(<<headers>>, content.rows)
       IN  /\ ~Skipped(section, content)
           /\ IsTable(section, content)
           /\ t.error
           /\ doc' = doc \o <<Heading(Upper(section)), Table(t.rows)>>
    /\ raised' = "IndexError"
    /\ pc' = "raised"
    /\ UNCHANGED <<fs_tmp, ppvars, personal_info, photo_path, cell_info,
                   cell_photo, idx, saved>>

\* lines 107-114, 139-142
GRParagraph ==
    /\ pc = "gr_sections"
    /\ idx <= Len(personal_info)
    /\ LET section == personal_info[idx].name
           content == personal_info[idx].value
           style == IF HasNewline(StrOf(content)) THEN "List Bullet"
                    ELSE "Normal"
       IN  /\ ~Skipped(section, content)
           /\ ~IsTable(section, content)
           /\ doc' = doc \o <<Heading(Upper(section)),
                              Paragraph(StrOf(content), style)>>
    /\ idx' = idx + 1
    /\ UNCHANGED <<pc, raised, fs_tmp, ppvars, personal_info, photo_path,
                   cell_info, cell_photo, saved>>

\* lines 145-147
GRSave ==
    /\ pc = "gr_sections"
    /\ idx > Len(personal_info)
    /\ saved' = Append(saved, OutputFilename(personal_info))
    /\ pc' = "done"
    /\ UNCHANGED <<raised, fs_tmp, ppvars, personal_info, photo_path, doc,
                   cell_info, cell_photo, idx>>

\* generate_resume has returned or raised; the process goes on to the next
\* invocation
GRReturn ==
    /\ pc \in {"done", "raised"}
    /\ PPLocals
    /\ GRLocals
    /\ raised' = "none"
    /\ pc' = "idle"
    /\ UNCHANGED fs_tmp

Init ==
    /\ pc = "idle"
    /\ raised = "none"
    /\ fs_tmp = NoFile
    /\ input_path = NoPath
    /\ img = NoImg
    /\ nfaces = -1
    /\ face0 = NoBox
    /\ crop_img = NoCrop
    /\ final_img = NoFile
    /\ ret = "none"
    /\ personal_info = <<>>
    /\ photo_path = NoPath
    /\ doc = <<>>
    /\ cell_info = <<>>
    /\ cell_photo = EmptyCell
    /\ idx = 0
    /\ saved = <<>>

Next ==
    \/ GRCall
    \/ GRHeader
    \/ GRNoPhotoPath
    \/ GRPhotoCall
    \/ PPNotFound
    \/ PPExists
    \/ PPReadNone
    \/ PPRead
    \/ PPDetect
    \/ PPCropFace
    \/ PPCropCenter
    \/ PPResizeError
    \/ PPResize
    \/ PPWrite
    \/ GRPhotoFailed
    \/ GRAddPicture
    \/ GRAddPictureError
    \/ GRRemove
    \/ GRSpacer
    \/ GRSkip
    \/ GRTable
    \/ GRTableError
    \/ GRParagraph
    \/ GRSave
    \/ GRReturn

Spec == Init /\ [][Next]_vars

-----------------------------------------------------------------------------
(* process_passport_photo called on its own, on every image of the bounds. *)

PhotoCall ==
    /\ pc = "idle"
    /\ \E p \in PhotoInputs : input_path' = p
    /\ pc' = "pp_exists"
    /\ UNCHANGED <<raised, fs_tmp, img, nfaces, face0, crop_img, final_img,
                   ret, grvars>>

PhotoReturn ==
    /\ pc \in {"pp_ret", "raised"}
    /\ PPLocals
    /\ raised' = "none"
    /\ pc' = "idle"
    /\ UNCHANGED <<fs_tmp, grvars>>

PhotoNext ==
    \/ PhotoCall
    \/ PPNotFound
    \/ PPExists
    \/ PPReadNone
    \/ PPRead
    \/ PPDetect
    \/ PPCropFace
    \/ PPCropCenter
    \/ PPResizeError
    \/ PPResize
    \/ PPWrite
    \/ PhotoReturn

PhotoSpec == Init /\ [][PhotoNext]_vars

-----------------------------------------------------------------------------
(* Properties of process_passport_photo.                                   *)

Cropped == pc \in {"pp_resize", "pp_write", "pp_ret"} /\ img # NoImg

\* C1: with a first face box inside the image, the crop rectangle computed
\* from the padded box satisfies 0 <= x1 < x2 <= W and 0 <= y1 < y2 <= H, and
\* the image written to the output path is 413 wide and 531 high.
C1_FaceCropClamped ==
    /\ (Cropped /\ nfaces > 0) =>
        /\ 0 <= crop_img.x1
        /\ crop_img.x1 < crop_img.x2
        /\ crop_img.x2 <= img.W
        /\ 0 <= crop_img.y1
        /\ crop_img.y1 < crop_img.y2
        /\ crop_img.y2 <= img.H
        /\ crop_img.x1 <= face0.x
        /\ face0.x + face0.w <= crop_img.x2
        /\ crop_img.y1 <= face0.y
        /\ face0.y + face0.h <= crop_img.y2
    /\ (pc = "pp_ret" /\ ret = "True" /\ nfaces > 0) =>
        fs_tmp = [w |-> 413, h |-> 531]

\* A face whose padded box leaves the image on all four sides has been
\* cropped, resized and written.
C1_Witness ==
    /\ pc = "pp_ret"
    /\ ret = "True"
    /\ nfaces > 0
    /\ face0.w >= 4
    /\ face0.h >= 2
    /\ 10 * face0.x < 3 * face0.w
    /\ 2 * face0.y < face0.h
    /\ crop_img.x1 = 0
    /\ crop_img.y1 = 0
    /\ crop_img.x2 = img.W
    /\ crop_img.y2 = img.H
    /\ fs_tmp = [w |-> 413, h |-> 531]

\* C2: with zero detected faces the crop is the full height [0, H) and the
\* band from 25% to 75% of W, each end truncated to a whole pixel.
C2_CenterCropBand ==
    (Cropped /\ nfaces = 0) =>
        /\ crop_img.y1 = 0
        /\ crop_img.y2 = img.H
        /\ 4 * crop_img.x1 <= img.W
        /\ img.W < 4 * (crop_img.x1 + 1)
        /\ 4 * crop_img.x2 <= 3 * img.W
        /\ 3 * img.W < 4 * (crop_img.x2 + 1)
        /\ crop_img.h = img.H
        /\ crop_img.w = crop_img.x2 - crop_img.x1

\* The fallback crop of an image whose width is no multiple of 4 has been
\* written.
C2_Witness ==
    /\ pc = "pp_ret"
    /\ ret = "True"
    /\ nfaces = 0
    /\ img.W = 5
    /\ img.H = 3
    /\ crop_img.x1 = 1
    /\ crop_img.x2 = 3
    /\ crop_img.y2 = 3

\* C3: once the image is decoded, process_passport_photo never raises: it
\* reaches the resize and write steps with a non-empty crop.
C3_NeverRaisesOnceDecoded ==
    img # NoImg =>
        /\ pc # "raised"
        /\ pc \in {"pp_resize", "pp_write"} =>
                (crop_img.w > 0 /\ crop_img.h > 0)

-----------------------------------------------------------------------------
(* Properties of generate_resume.                                          *)

Unreadable(p) == p.kind \in {"missing", "undecodable"}

C4_State ==
    /\ Unreadable(input_path) =>
        /\ pc \in {"pp_exists", "pp_read", "pp_ret"}
        /\ pc = "pp_ret" => ret = "False"
        /\ img = NoImg
        /\ nfaces = -1
        /\ crop_img = NoCrop
        /\ final_img = NoFile
    /\ (Unreadable(photo_path) /\ pc \in {"gr_spacer", "gr_sections", "done"}) =>
        /\ cell_photo.text = NoPhotoText
        /\ cell_photo.pictures = <<>>
    /\ (Unreadable(photo_path) /\ pc = "raised") => raised = "IndexError"
    /\ (Unreadable(photo_path) /\ pc = "done") =>
        /\ idx = Len(personal_info) + 1
        /\ Len(saved) = 1

C4_Step ==
    /\ Unreadable(input_path) => fs_tmp' = fs_tmp
    /\ (pc = "pp_ret" /\ ret = "False") => pc' = "gr_spacer"

\* C4: for a photo path that does not exist or does not decode,
\* process_passport_photo returns False without writing the output file and
\* without detection, crop or resize; generate_resume then puts the text
\* "[No Photo]" and no picture in the photo cell and goes on to the spacer,
\* the sections and the save.
C4_UnreadablePhoto == [][C4_Step]_vars /\ []C4_State

\* A resume with two sections was saved after the photo failed to decode.
C4_Witness ==
    /\ pc = "done"
    /\ photo_path.kind = "undecodable"
    /\ cell_photo.text = NoPhotoText
    /\ cell_photo.pictures = <<>>
    /\ fs_tmp = NoFile
    /\ Len(doc) >= 6
    /\ Len(saved) = 1

\* C5: when generate_resume ends, by returning or by raising, the file
\* temp_passport_photo.jpg does not exist.
C5_TempFileRemoved == pc \in {"done", "raised", "idle"} => fs_tmp = NoFile

\* C6: the contact lines of the header are the values of the contact keys, in
\* the order Email, Phone, Address, LinkedIn, that are non-empty and not "NA".
C6_ContactLinesPresent ==
    LET present(k) ==
            /\ \E i \in 1..Len(personal_info) :
                    personal_info[i].name = contact_keys[k]
            /\ Get(personal_info, contact_keys[k], Str(NA)) # Str(NA)
            /\ Get(personal_info, contact_keys[k], Str(NA)) # Str(<<>>)
        keys == SelectSeq(<<1, 2, 3, 4>>, present)
    IN  pc \in {"gr_photo", "gr_spacer", "gr_sections", "done"} =>
            Tail(cell_info) =
                [n \in 1..Len(keys) |->
                    Get(personal_info, contact_keys[keys[n]], Str(NA)).s]

\* Presence test: non-empty and not "NA".
Present(v) == v # Str(NA) /\ v # Str(<<>>) /\ v # Lst(<<>>)

HeaderSet == {FullName, Email, Phone, Address, LinkedIn, PhotoPathKey}

\* The upper-cased names of the section fields of the records.
LabelOf(name) ==
    IF name = Education THEN <<69, 68, 85, 67, 65, 84, 73, 79, 78>>
    ELSE IF name = Skills THEN <<83, 75, 73, 76, 76, 83>>
    ELSE <<>>

\* Fields of the record the section loop has gone through.
Processed ==
    IF pc = "raised" THEN idx
    ELSE IF idx = 0 THEN 0 ELSE idx - 1

IsSection(i) ==
    /\ personal_info[i].name \notin HeaderSet
    /\ Present(personal_info[i].value)

HeadingTexts ==
    LET hs == SelectSeq(doc, LAMBDA b : b.kind = "heading")
    IN  [k \in 1..Len(hs) |-> hs[k].text]

ExpectedHeadings(n) ==
    LET fs == SelectSeq([i \in 1..n |-> i], IsSection)
    IN  [k \in 1..Len(fs) |-> LabelOf(personal_info[fs[k]].name)]

\* C7: the section headings emitted are, in the record's insertion order, the
\* upper-cased names of the fields gone through that are not header fields
\* and are present; at the end every field has been gone through, and a
\* record without such a field yields the header block and the spacer only.
C7_HeadingsStableFilter ==
    /\ HeadingTexts = ExpectedHeadings(Processed)
    /\ pc = "done" =>
        /\ Processed = Len(personal_info)
        /\ doc[1] = HeaderTable
        /\ doc[2] = Spacer
        /\ ExpectedHeadings(Len(personal_info)) = <<>> => Len(doc) = 2

\* A header field, Skills and Education, in that order, gave the headings
\* SKILLS and EDUCATION.
C7_Witness ==
    /\ pc = "done"
    /\ Len(personal_info) = 3
    /\ personal_info[1].name = Skills
    /\ personal_info[2].name = Email
    /\ personal_info[3].name = Education
    /\ HeadingTexts = << <<83, 75, 73, 76, 76, 83>>,
                         <<69, 68, 85, 67, 65, 84, 73, 79, 78>> >>

\* The block that follows the heading of field i, and the one after it.
BodyIndex(i) ==
    CHOOSE k \in 1..(Len(doc) + 1) :
        \/ k = Len(doc) + 1
        \/ /\ k > 1
           /\ doc[k - 1].kind = "heading"
           /\ doc[k - 1].text = LabelOf(personal_info[i].name)

HasBody(i) == BodyIndex(i) <= Len(doc)

FourCells(v) ==
    /\ v.t = "list"
    /\ Len(v.rows) >= 1
    /\ \A r \in 1..Len(v.rows) : Len(v.rows[r]) = 4

\* C8: a table block emitted for a field of N >= 1 rows of 4 cells has N + 1
\* rows of 4 columns: the header Degree/Course, Institution, Year, Grade/CGPA,
\* then row i holding the cells of input row i in column order; a spacer
\* block follows the table.
C8_TableRows ==
    \A i \in 1..Processed :
        LET v == personal_info[i].value
            k == BodyIndex(i)
        IN  (IsSection(i) /\ FourCells(v) /\ HasBody(i)
                /\ doc[k].kind = "table") =>
                /\ Len(doc[k].rows) = Len(v.rows) + 1
                /\ \A r \in 1..Len(doc[k].rows) : Len(doc[k].rows[r]) = 4
                /\ doc[k].rows[1] =
                    << <<68, 101, 103, 114, 101, 101, 47, 67, 111, 117, 114,
                         115, 101>>,
                       <<73, 110, 115, 116, 105, 116, 117, 116, 105, 111, 110>>,
                       <<89, 101, 97, 114>>,
                       <<71, 114, 97, 100, 101, 47, 67, 71, 80, 65>> >>
                /\ \A r \in 1..Len(v.rows) : doc[k].rows[r + 1] = v.rows[r]
                /\ k + 1 <= Len(doc)
                /\ doc[k + 1] = Spacer

\* An Education field of two rows of 4 cells was rendered and saved.
C8_Witness ==
    /\ pc = "done"
    /\ \E i \in 1..Len(personal_info) :
        /\ personal_info[i].name = Education
        /\ FourCells(personal_info[i].value)
        /\ Len(personal_info[i].value.rows) = 2
        /\ HasBody(i)
        /\ doc[BodyIndex(i)].kind = "table"
        /\ Len(doc[BodyIndex(i)].rows) = 3
        /\ doc[BodyIndex(i)].rows[3] =
            << <<98, 49>>, <<98, 50>>, <<98, 51>>, <<98, 52>> >>

EqualLengthRows(v) ==
    /\ v.t = "list"
    /\ \A r, q \in 1..Len(v.rows) : Len(v.rows[r]) = Len(v.rows[q])

C10_NoErrorForAnyRecord ==
    /\ raised # "IndexError"
    /\ pc = "done" => Len(saved) = 1

=============================================================================
